---- MODULE Spec2Model ----
(***************************************************************************)
(* Model of the valuation engine of backend/cre_underwriter.py             *)
(* (CREUnderwriter.calculate_return_metrics and calculate_irr) and of the  *)
(* /underwrite handler of backend/api.py that drives it.                   *)
(*                                                                         *)
(* Python floats are modelled as binary floating-point numbers with a      *)
(* MantBits-bit significand, an unbounded exponent and round-to-nearest-   *)
(* even: a value is a record [m |-> significand, e |-> exponent] standing  *)
(* for m * 2^e, with 2^(MantBits-1) <= |m| < 2^MantBits, or m = 0, e = 0.  *)
(***************************************************************************)
EXTENDS Integers, Sequences, FiniteSets, TLC

\* ------------------------------------------------------------------------
\* Floating-point arithmetic

\* Width of the significand of the model's floats.
MantBits == 12

AbsI(n) == IF n < 0 THEN -n ELSE n

SignI(n) == IF n < 0 THEN -1 ELSE 1

RECURSIVE BitLen(_, _)
\* Number of binary digits of the natural number n, 1 <= n < 2^top.
BitLen(n, top) == IF n >= 2^(top - 1) THEN top ELSE BitLen(n, top - 1)

\* n / 2^s for naturals, rounded to nearest, ties to even.
RoundShift(n, s) ==
    IF s = 0 THEN n
    ELSE LET q == n \div (2^s)
             r == n % (2^s)
             h == 2^(s - 1)
         IN IF r > h \/ (r = h /\ q % 2 = 1) THEN q + 1 ELSE q

FZero == [m |-> 0, e |-> 0]

\* The float nearest to sg * n * 2^e (sg in {-1, 1}, n a natural below 2^top).
Norm(sg, n, e, top) ==
    IF n = 0 THEN FZero
    ELSE LET b == BitLen(n, top)
         IN IF b <= MantBits
            THEN [m |-> sg * n * 2^(MantBits - b), e |-> e - (MantBits - b)]
            ELSE LET q == RoundShift(n, b - MantBits)
                 IN IF q = 2^MantBits
                    THEN [m |-> sg * 2^(MantBits - 1), e |-> e + (b - MantBits) + 1]
                    ELSE [m |-> sg * q, e |-> e + (b - MantBits)]

\* The float nearest to the integer n, |n| <= 2^30.
FromInt(n) == Norm(SignI(n), AbsI(n), 0, 31)

FNeg(a) == [m |-> -a.m, e |-> a.e]

FAbs(a) == [m |-> AbsI(a.m), e |-> a.e]

FMul(a, b) == Norm(SignI(a.m) * SignI(b.m), AbsI(a.m) * AbsI(b.m), a.e + b.e, 2 * MantBits)

FAdd(a, b) ==
    IF a.m = 0 THEN b
    ELSE IF b.m = 0 THEN a
    ELSE LET hi == IF a.e >= b.e THEN a ELSE b
             lo == IF a.e >= b.e THEN b ELSE a
             d  == hi.e - lo.e
         IN IF d > MantBits + 1 THEN hi
            ELSE LET s == hi.m * 2^d + lo.m
                 IN Norm(SignI(s), AbsI(s), lo.e, MantBits + d + 1)

FSub(a, b) == FAdd(a, FNeg(b))

\* a / b for b # 0 (the callers raise ZeroDivisionError when b = 0).
FDiv(a, b) ==
    IF a.m = 0 THEN FZero
    ELSE LET num == AbsI(a.m) * 2^(MantBits + 2)
             q   == num \div AbsI(b.m)
             r   == num % AbsI(b.m)
         IN Norm(SignI(a.m) * SignI(b.m),
                 2 * q + (IF r = 0 THEN 0 ELSE 1),
                 a.e - b.e - (MantBits + 3), MantBits + 4)

FLt(a, b) == FSub(a, b).m < 0

FLe(a, b) == FSub(a, b).m <= 0

IsZero(a) == a.m = 0

\* The decimal literal n / d.
Dec(n, d) == FDiv(FromInt(n), FromInt(d))

FOne == FromInt(1)

RECURSIVE FPowNat(_, _)
\* x ** k for an integer k >= 0.
FPowNat(x, k) == IF k = 0 THEN FOne ELSE FMul(FPowNat(x, k - 1), x)

\* x ** k for an integer k and x # 0 when k < 0.
FPowInt(x, k) == IF k >= 0 THEN FPowNat(x, k) ELSE FDiv(FOne, FPowNat(x, -k))

RECURSIVE FSum(_, _, _)
\* sum(seq): the running total from element i on, starting from acc.
FSum(seq, i, acc) == IF i > Len(seq) THEN acc ELSE FSum(seq, i + 1, FAdd(acc, seq[i]))

\* int(n / d) for d > 0: truncation toward zero.
TruncDiv(n, d) == IF n >= 0 THEN n \div d ELSE -((-n) \div d)

\* ------------------------------------------------------------------------
\* Dates

\* A date string is a record [fmt, y, m, d]: the layout it is written in and
\* the fields it holds.  fmt is one of the strptime formats below or "other".
DateFormats == {"%m/%d/%Y", "%Y-%m-%d", "%m-%d-%Y", "%Y/%m/%d"}

Date(fmt, y, m, d) == [fmt |-> fmt, y |-> y, m |-> m, d |-> d]

\* A month and year such as 'January, 2026', written in the layout fmt.
Month(fmt, y, m) == [fmt |-> fmt, y |-> y, m |-> m]

IsLeap(y) == (y % 4 = 0 /\ y % 100 # 0) \/ y % 400 = 0

DaysInMonth(y, m) ==
    IF m = 2 THEN (IF IsLeap(y) THEN 29 ELSE 28)
    ELSE IF m \in {4, 6, 9, 11} THEN 30 ELSE 31

ValidDate(s) == s.y \in 1..9999 /\ s.m \in 1..12 /\ s.d \in 1..DaysInMonth(s.y, s.m)

\* Day number of a calendar date (differences are timedelta.days).
DayNumber(y, m, d) ==
    LET yy  == IF m <= 2 THEN y - 1 ELSE y
        era == yy \div 400
        yoe == yy - era * 400
        mp  == IF m > 2 THEN m - 3 ELSE m + 9
        doy == (153 * mp + 2) \div 5 + d - 1
        doe == yoe * 365 + yoe \div 4 - yoe \div 100 + doy
    IN era * 146097 + doe

\* datetime.strptime(s, fmt): raises ValueError unless s is written in fmt
\* and names a calendar date.
Strptime(s, fmt) ==
    IF s.fmt = fmt /\ ValidDate(s)
    THEN [ok |-> TRUE, day |-> DayNumber(s.y, s.m, s.d)]
    ELSE [ok |-> FALSE, day |-> 0]

\* datetime.strptime(s, fmt) for a month and year: the year it names.
StrptimeMonth(s, fmt) ==
    IF s.fmt = fmt /\ s.y \in 1..9999 /\ s.m \in 1..12
    THEN [ok |-> TRUE, year |-> s.y]
    ELSE [ok |-> FALSE, year |-> 0]

\* cf_start_date = datetime(2026, 1, 1)
cf_start_date == DayNumber(2026, 1, 1)

\* The years rounded to the nearest whole number.
IntYearsNearest(days) == TruncDiv(8 * days + 1461, 2922)

\* int(days / 365.25)
IntYears(days) == TruncDiv(4 * days, 1461)

\* x ** (days / 365.25): the whole years by multiplication, the remaining
\* fraction f of a year by 1 + f * (x - 1), which agrees with x ** f to within
\* the model's precision for the escalation rates the model uses.
FPowYears(x, days) ==
    LET k == (4 * days) \div 1461
        f == Dec(4 * days - 1461 * k, 1461)
    IN FMul(FPowInt(x, k), FAdd(FOne, FMul(f, FSub(x, FOne))))

\* Optional or nullable dictionary entries: the key is absent, holds None,
\* or holds a number.
Absent == [k |-> "absent"]

None == [k |-> "None"]

Num(v) == [k |-> "num", v |-> v]

\* A division that yields 0 in place of the exception.
PyDivCoerced(a, b) == IF IsZero(b) THEN Num(FZero) ELSE Num(FDiv(a, b))

\* a / b: raises ZeroDivisionError when b is zero.
PyDiv(a, b) == IF IsZero(b) THEN [k |-> "ZeroDivisionError"] ELSE Num(FDiv(a, b))

\* A loop that runs one pass too many.
InRangeInclusive(i, n) == i <= n

\* i in range(n), for the loop counter i >= 0.
InRange(i, n) == i < n

\* ------------------------------------------------------------------------
\* State

VARIABLES
    entry,              \* the operation the client invoked
    path,               \* the URL path of the request
    data,               \* the JSON body of the /underwrite request
    property_data,      \* the three input dictionaries of the engine
    lease_data,
    assumptions,
    pc,                 \* position of the computation
    caller,             \* who awaits calculate_return_metrics
    current_rent,       \* locals of calculate_return_metrics
    expiry_year,
    year,
    annual_cash_flows,
    cash_flow_pvs,
    year_locals,        \* the locals the latest pass through the year loop assigned
    exit_noi,
    totals,             \* exit value, PV totals and ratios (lines 163-184)
    initial_investment, \* calculate_irr arguments
    cash_flows,
    terminal_value,
    low, high, mid,     \* bisection locals
    iter,               \* iterations of the for loop completed
    irr_exit,           \* which return statement of calculate_irr ran
    irr,                \* value returned by calculate_irr
    result,             \* value returned by calculate_return_metrics
    exception,          \* exception raised and not yet handled
    sheetnames,         \* self.wb.sheetnames
    cash_flow_sheet,    \* the values of the rows of the latest Cash Flow sheet
    calls,              \* calls of create_underwriting on the instance so far
    response,           \* HTTP response of /underwrite
    metrics_or_error    \* what the first call of the /underwrite handler returned

inputVars == <<entry, path, data, property_data, lease_data, assumptions>>

projVars == <<current_rent, expiry_year, year, annual_cash_flows, cash_flow_pvs, year_locals, exit_noi, totals>>

irrArgs == <<initial_investment, cash_flows, terminal_value>>

irrVars == <<irrArgs, low, high, mid, iter, irr_exit, irr>>

outVars == <<result, exception, sheetnames, cash_flow_sheet, calls, response, metrics_or_error>>

vars == <<inputVars, pc, caller, projVars, irrVars, outVars>>

\* ------------------------------------------------------------------------
\* calculate_irr

\* for _ in range(1000)
MaxIterations == 1000

LowStart == Dec(-99, 100)

HighStart == FromInt(5)

tolerance == Dec(1, 10000)

RECURSIVE NpvTerms(_, _, _, _, _)
\* The for loop of npv_at_rate from term i on; pw is (1 + rate) ** (i - 1).
NpvTerms(cfs, base, i, pw, npv) ==
    IF i > Len(cfs)
    THEN [npv |-> npv, pw |-> pw]
    ELSE LET p == FMul(pw, base)
         IN NpvTerms(cfs, base, i + 1, p, FAdd(npv, FDiv(cfs[i], p)))

npv_at_rate(inv, cfs, tv, rate) ==
    LET t == NpvTerms(cfs, FAdd(FOne, rate), 1, FOne, FNeg(inv))
    IN FAdd(t.npv, FDiv(tv, t.pw))

\* A split of the bracket at a third of the sum of its ends.
MidpointThird(lo, hi) == FDiv(FAdd(lo, hi), FromInt(3))

\* mid = (low + high) / 2
Midpoint(lo, hi) == FDiv(FAdd(lo, hi), FromInt(2))

\* The decimal rate returned as it is.
PercentAsRate(rate) == rate

\* mid * 100
Percent(rate) == FMul(rate, FromInt(100))

\* One pass through the body of the for loop.
IrrIterate ==
    /\ pc = "irr"
    /\ InRange(iter, MaxIterations)
    /\ LET m       == Midpoint(low, high)
           npv_mid == npv_at_rate(initial_investment, cash_flows, terminal_value, m)
           npv_low == npv_at_rate(initial_investment, cash_flows, terminal_value, low)
       IN /\ mid' = m
          /\ iter' = iter + 1
          /\ IF FLt(FAbs(npv_mid), tolerance)
             THEN /\ irr' = Percent(m)
                  /\ irr_exit' = "tolerance"
                  /\ pc' = "irr_done"
                  /\ UNCHANGED <<low, high>>
             ELSE /\ IF FLt(FMul(npv_low, npv_mid), FZero)
                     THEN high' = m /\ low' = low
                     ELSE low' = m /\ high' = high
                  /\ UNCHANGED <<irr, irr_exit, pc>>
    /\ UNCHANGED <<inputVars, caller, projVars, irrArgs, outVars>>

\* The return after the loop.
IrrExhausted ==
    /\ pc = "irr"
    /\ ~InRange(iter, MaxIterations)
    /\ irr' = Percent(mid)
    /\ irr_exit' = "exhausted"
    /\ pc' = "irr_done"
    /\ UNCHANGED <<inputVars, caller, projVars, irrArgs, low, high, mid, iter, outVars>>

\* ------------------------------------------------------------------------
\* calculate_return_metrics

NoResult == [k |-> "none"]

\* Before the first pass through the year loop its locals are unassigned.
NoLocals ==
    [year |-> 0, annual_rent |-> FZero, vacancy_loss |-> FZero, noi |-> FZero,
     total_leasing_costs |-> FZero, cash_flow |-> FZero]

\* The locals of a fresh call.
FreshLocals ==
    /\ current_rent = None
    /\ expiry_year = 0
    /\ year = 0
    /\ annual_cash_flows = << >>
    /\ cash_flow_pvs = << >>
    /\ year_locals = NoLocals
    /\ exit_noi = FZero
    /\ totals = NoResult
    /\ initial_investment = FZero
    /\ cash_flows = << >>
    /\ terminal_value = FZero
    /\ low = LowStart
    /\ high = HighStart
    /\ mid = FZero
    /\ iter = 0
    /\ irr_exit = "none"
    /\ irr = FZero

\* Locals of which the list of cash flows outlives the call.
StaleLocalsNext ==
    /\ current_rent' = None
    /\ expiry_year' = 0
    /\ year' = 0
    /\ annual_cash_flows' = annual_cash_flows
    /\ cash_flow_pvs' = << >>
    /\ year_locals' = NoLocals
    /\ exit_noi' = FZero
    /\ totals' = NoResult
    /\ initial_investment' = FZero
    /\ cash_flows' = << >>
    /\ terminal_value' = FZero
    /\ low' = LowStart
    /\ high' = HighStart
    /\ mid' = FZero
    /\ iter' = 0
    /\ irr_exit' = "none"
    /\ irr' = FZero

\* A call starts with its own new locals.
FreshLocalsNext ==
    /\ current_rent' = None
    /\ expiry_year' = 0
    /\ year' = 0
    /\ annual_cash_flows' = << >>
    /\ cash_flow_pvs' = << >>
    /\ year_locals' = NoLocals
    /\ exit_noi' = FZero
    /\ totals' = NoResult
    /\ initial_investment' = FZero
    /\ cash_flows' = << >>
    /\ terminal_value' = FZero
    /\ low' = LowStart
    /\ high' = HighStart
    /\ mid' = FZero
    /\ iter' = 0
    /\ irr_exit' = "none"
    /\ irr' = FZero

\* An exception swallowed by the function, which then returns early.
RaiseSwallowed(exc) == pc' = "returned" /\ exception' = exception

\* An exception leaves the function.
Raise(exc) == pc' = "raised" /\ exception' = exc

\* Lines 58-89: the rent at the start of the analysis.
StartRent ==
    /\ pc = "start_rent"
    /\ LET y1    == lease_data.year1_starting_rent
           start == Strptime(lease_data.lease_start, "%m/%d/%Y")
           days  == cf_start_date - start.day
           base  == FAdd(FOne, lease_data.escalation_rate)
       IN IF y1.k # "absent"
          THEN current_rent' = y1 /\ pc' = "expiry" /\ UNCHANGED exception
          ELSE IF ~start.ok
          THEN Raise("ValueError") /\ UNCHANGED current_rent
          ELSE IF lease_data.use_fractional_escalation
          THEN IF IsZero(base) /\ days < 0
               THEN Raise("ZeroDivisionError") /\ UNCHANGED current_rent
               ELSE /\ current_rent' = Num(FMul(lease_data.current_annual_rent, FPowYears(base, days)))
                    /\ pc' = "expiry"
                    /\ UNCHANGED exception
          ELSE IF IsZero(base) /\ IntYears(days) < 0
               THEN Raise("ZeroDivisionError") /\ UNCHANGED current_rent
               ELSE /\ current_rent' = Num(FMul(lease_data.current_annual_rent, FPowInt(base, IntYears(days))))
                    /\ pc' = "expiry"
                    /\ UNCHANGED exception
    /\ UNCHANGED <<inputVars, caller, expiry_year, year, annual_cash_flows, cash_flow_pvs, year_locals, exit_noi, totals>>
    /\ UNCHANGED <<irrVars, result, sheetnames, cash_flow_sheet, calls, response, metrics_or_error>>

\* Lines 91-94: the projection year in which the lease expires.
ExpiryYear ==
    /\ pc = "expiry"
    /\ LET end == Strptime(lease_data.lease_end, "%m/%d/%Y")
       IN IF ~end.ok
          THEN Raise("ValueError") /\ UNCHANGED <<expiry_year, year>>
          ELSE /\ expiry_year' = IntYears(end.day - cf_start_date) + 1
               /\ year' = 1
               /\ pc' = "loop"
               /\ UNCHANGED exception
    /\ UNCHANGED <<inputVars, caller, current_rent, annual_cash_flows, cash_flow_pvs, year_locals, exit_noi, totals>>
    /\ UNCHANGED <<irrVars, result, sheetnames, cash_flow_sheet, calls, response, metrics_or_error>>

\* assumptions.get('adjusted_market_rent_psf', assumptions['market_rent_psf'])
market_rent_psf(ass) ==
    IF ass.adjusted_market_rent_psf.k = "absent"
    THEN Num(ass.market_rent_psf)
    ELSE ass.adjusted_market_rent_psf

\* The rent of a year with the escalation of the original lease left out.
annual_rent_flat(y, rent, exp, lease, ass) ==
    IF y <= exp
    THEN rent
    ELSE LET psf == market_rent_psf(ass)
         IN IF psf.k = "None" THEN None
            ELSE IF y = exp + 1
            THEN Num(FMul(psf.v, lease.area_sf))
            ELSE Num(FMul(FMul(psf.v, lease.area_sf),
                          FPowNat(FAdd(FOne, ass.market_escalation_rate), y - exp - 1)))

\* The rent of a year with the original lease kept one year too long.
annual_rent_late(y, rent, exp, lease, ass) ==
    IF y <= exp + 1
    THEN IF rent.k = "None" THEN None
         ELSE Num(FMul(rent.v, FPowNat(FAdd(FOne, lease.escalation_rate), y - 1)))
    ELSE LET psf == market_rent_psf(ass)
         IN IF psf.k = "None" THEN None
            ELSE Num(FMul(FMul(psf.v, lease.area_sf),
                          FPowNat(FAdd(FOne, ass.market_escalation_rate), y - exp - 1)))

\* Lines 101-115: the potential rent of a year of the loop; None stands for
\* the TypeError of multiplying None.
annual_rent(y, rent, exp, lease, ass) ==
    IF y <= exp
    THEN IF rent.k = "None" THEN None
         ELSE Num(FMul(rent.v, FPowNat(FAdd(FOne, lease.escalation_rate), y - 1)))
    ELSE LET psf == market_rent_psf(ass)
         IN IF psf.k = "None" THEN None
            ELSE IF y = exp + 1
            THEN Num(FMul(psf.v, lease.area_sf))
            ELSE Num(FMul(FMul(psf.v, lease.area_sf),
                          FPowNat(FAdd(FOne, ass.market_escalation_rate), y - exp - 1)))

\* A vacancy charged in the year after the lease expires.
vacancy_loss_year_after(y, rent, exp, ass) ==
    IF y = exp + 1
    THEN FMul(rent, FMul(FDiv(ass.vacancy_months, FromInt(12)),
                         FSub(FOne, ass.renewal_probability)))
    ELSE FZero

\* Lines 117-125.
vacancy_loss(y, rent, exp, ass) ==
    IF y = exp
    THEN FMul(rent, FMul(FDiv(ass.vacancy_months, FromInt(12)),
                         FSub(FOne, ass.renewal_probability)))
    ELSE FZero

\* Leasing costs whose commission is weighted by the non-renewal probability.
total_leasing_costs_weighted(y, rent, exp, lease, ass) ==
    IF y = exp
    THEN FAdd(FMul(FMul(ass.tenant_improvements_psf, lease.area_sf),
                   FSub(FOne, ass.renewal_probability)),
              FMul(FMul(rent, ass.leasing_commission_year1_pct),
                   FSub(FOne, ass.renewal_probability)))
    ELSE FZero

\* Lines 130-139.
total_leasing_costs(y, rent, exp, lease, ass) ==
    IF y = exp
    THEN FAdd(FMul(FMul(ass.tenant_improvements_psf, lease.area_sf),
                   FSub(FOne, ass.renewal_probability)),
              FMul(rent, ass.leasing_commission_year1_pct))
    ELSE FZero

\* Lines 100-148: one pass through the body of the year loop.
YearStep ==
    /\ pc = "loop"
    /\ LET rent  == annual_rent(year, current_rent, expiry_year, lease_data, assumptions)
           loss  == vacancy_loss(year, rent.v, expiry_year, assumptions)
           noi   == FSub(rent.v, loss)
           costs == total_leasing_costs(year, rent.v, expiry_year, lease_data, assumptions)
           cash_flow == FSub(noi, costs)
           pv    == PyDiv(cash_flow, FPowNat(FAdd(FOne, assumptions.discount_rate), year))
           locals == [year |-> year, annual_rent |-> rent.v, vacancy_loss |-> loss, noi |-> noi,
                      total_leasing_costs |-> costs, cash_flow |-> cash_flow]
       IN IF rent.k = "None"
          THEN Raise("TypeError") /\ UNCHANGED <<year, annual_cash_flows, cash_flow_pvs, year_locals>>
          ELSE IF pv.k # "num"
          THEN /\ Raise(pv.k)
               /\ annual_cash_flows' = Append(annual_cash_flows, cash_flow)
               /\ year_locals' = locals
               /\ UNCHANGED <<year, cash_flow_pvs>>
          ELSE /\ annual_cash_flows' = Append(annual_cash_flows, cash_flow)
               /\ cash_flow_pvs' = Append(cash_flow_pvs, pv.v)
               /\ year_locals' = locals
               /\ year' = year + 1
               /\ pc' = IF year = 10 THEN "exit_noi" ELSE "loop"
               /\ UNCHANGED exception
    /\ UNCHANGED <<inputVars, caller, current_rent, expiry_year, exit_noi, totals>>
    /\ UNCHANGED <<irrVars, result, sheetnames, cash_flow_sheet, calls, response, metrics_or_error>>

\* A rent of year 11 that bears the vacancy when the lease expires in it.
exit_rent_less_vacancy(rent, exp, lease, ass) ==
    IF 11 <= exp
    THEN IF rent.k = "None" THEN None
         ELSE LET r == FMul(rent.v, FPowNat(FAdd(FOne, lease.escalation_rate), 11 - 1))
              IN Num(FSub(r, vacancy_loss(11, r, exp, ass)))
    ELSE LET psf == market_rent_psf(ass)
         IN IF psf.k = "None" THEN None
            ELSE Num(FMul(FMul(psf.v, lease.area_sf),
                          FPowNat(FAdd(FOne, ass.market_escalation_rate), 11 - exp - 1)))

\* Lines 150-158: the rent of year 11.
exit_rent(rent, exp, lease, ass) ==
    IF 11 <= exp
    THEN IF rent.k = "None" THEN None
         ELSE Num(FMul(rent.v, FPowNat(FAdd(FOne, lease.escalation_rate), 11 - 1)))
    ELSE LET psf == market_rent_psf(ass)
         IN IF psf.k = "None" THEN None
            ELSE Num(FMul(FMul(psf.v, lease.area_sf),
                          FPowNat(FAdd(FOne, ass.market_escalation_rate), 11 - exp - 1)))

\* Lines 150-161: the exit NOI.
ExitNoi ==
    /\ pc = "exit_noi"
    /\ LET rent == exit_rent(current_rent, expiry_year, lease_data, assumptions)
       IN IF rent.k = "None"
          THEN Raise("TypeError") /\ UNCHANGED <<year, exit_noi, year_locals>>
          ELSE /\ exit_noi' = rent.v
               /\ year_locals' = [year_locals EXCEPT !.year = 11, !.annual_rent = rent.v]
               /\ year' = 11
               /\ pc' = "totals"
               /\ UNCHANGED exception
    /\ UNCHANGED <<inputVars, caller, current_rent, expiry_year, annual_cash_flows, cash_flow_pvs, totals>>
    /\ UNCHANGED <<irrVars, result, sheetnames, cash_flow_sheet, calls, response, metrics_or_error>>

\* A share of the total PV left as a fraction.
PctAsFraction(part, total) == PyDiv(part, total)

\* Lines 183-184: a share of the total PV, as a percentage.
PctOfTotal(part, total) ==
    LET q == PyDiv(part, total)
    IN IF q.k = "num" THEN Num(FMul(q.v, FromInt(100))) ELSE q

\* A sale discounted over the hold period of the assumptions.
SaleYearHeld(ass) == ass.hold_period_years

\* Line 168: the sale is discounted over ten years, whatever the assumptions.
SaleYear(ass) == 10

\* Lines 163-184: exit value, PV totals, total return and ratios, or the
\* exception of the first division that fails.
Totals(price, cfs, pvs, noi, ass) ==
    LET net_sale_price      == PyDiv(noi, ass.exit_cap_rate)
        proceeds_from_sale  == net_sale_price.v
        pv_net_sales        == PyDiv(proceeds_from_sale,
                                     FPowNat(FAdd(FOne, ass.discount_rate), SaleYear(ass)))
        pv_cash_flow        == FSum(pvs, 1, FZero)
        total_pv            == FAdd(pv_cash_flow, pv_net_sales.v)
        total_cash_received == FAdd(FSum(cfs, 1, FZero), proceeds_from_sale)
        total_return        == FSub(total_cash_received, price)
        return_to_invest    == PyDiv(total_return, price)
        pct_pv_income       == PctOfTotal(pv_cash_flow, total_pv)
        pct_pv_sales        == PctOfTotal(pv_net_sales.v, total_pv)
    IN IF net_sale_price.k # "num" THEN net_sale_price
       ELSE IF pv_net_sales.k # "num" THEN pv_net_sales
       ELSE IF return_to_invest.k # "num" THEN return_to_invest
       ELSE IF pct_pv_income.k # "num" THEN pct_pv_income
       ELSE IF pct_pv_sales.k # "num" THEN pct_pv_sales
       ELSE [k                |-> "num",
             net_sale_price   |-> net_sale_price.v,
             pv_net_sales     |-> pv_net_sales.v,
             pv_cash_flow     |-> pv_cash_flow,
             total_pv         |-> total_pv,
             npv              |-> FSub(total_pv, price),
             total_return     |-> total_return,
             return_to_invest |-> return_to_invest.v,
             pct_pv_income    |-> pct_pv_income.v,
             pct_pv_sales     |-> pct_pv_sales.v]

\* Lines 163-187: exit value, totals, ratios, and the call of calculate_irr.
CalcTotals ==
    /\ pc = "totals"
    /\ LET t == Totals(property_data.purchase_price, annual_cash_flows, cash_flow_pvs,
                       exit_noi, assumptions)
       IN IF t.k # "num"
          THEN /\ Raise(t.k)
               /\ UNCHANGED <<totals, irrVars>>
          ELSE /\ totals' = t
               /\ initial_investment' = property_data.purchase_price
               /\ cash_flows' = annual_cash_flows
               /\ terminal_value' = t.net_sale_price
               /\ low' = LowStart
               /\ high' = HighStart
               /\ iter' = 0
               /\ pc' = "irr"
               /\ UNCHANGED <<mid, irr_exit, irr, exception>>
    /\ UNCHANGED <<inputVars, caller, current_rent, expiry_year, year, annual_cash_flows, cash_flow_pvs, year_locals, exit_noi>>
    /\ UNCHANGED <<result, sheetnames, cash_flow_sheet, calls, response, metrics_or_error>>

\* A dictionary that asks for the month-level timing when it is missing.
MetricsOrNeedsInput(cfs, pvs, t, rate, noi) ==
    [k                 |-> "metrics",
     annual_cash_flows |-> cfs,
     cash_flow_pvs     |-> pvs,
     total_return      |-> t.total_return,
     return_to_invest  |-> t.return_to_invest,
     pv_cash_flow      |-> t.pv_cash_flow,
     pv_net_sales      |-> t.pv_net_sales,
     total_pv          |-> t.total_pv,
     npv               |-> t.npv,
     pct_pv_income     |-> t.pct_pv_income,
     pct_pv_sales      |-> t.pct_pv_sales,
     irr               |-> rate,
     exit_noi          |-> noi,
     net_sale_price    |-> t.net_sale_price]
    @@ IF assumptions.vacancy_start_month.k = "None"
       THEN [error |-> "needs_input"]
       ELSE << >>

\* A dictionary whose 'npv' entry holds the total PV.
MetricsNpvGross(cfs, pvs, t, rate, noi) ==
    [k                 |-> "metrics",
     annual_cash_flows |-> cfs,
     cash_flow_pvs     |-> pvs,
     total_return      |-> t.total_return,
     return_to_invest  |-> t.return_to_invest,
     pv_cash_flow      |-> t.pv_cash_flow,
     pv_net_sales      |-> t.pv_net_sales,
     total_pv          |-> t.total_pv,
     npv               |-> t.total_pv,
     pct_pv_income     |-> t.pct_pv_income,
     pct_pv_sales      |-> t.pct_pv_sales,
     irr               |-> rate,
     exit_noi          |-> noi,
     net_sale_price    |-> t.net_sale_price]

\* Lines 189-203: the dictionary returned.
Metrics(cfs, pvs, t, rate, noi) ==
    [k                 |-> "metrics",
     annual_cash_flows |-> cfs,
     cash_flow_pvs     |-> pvs,
     total_return      |-> t.total_return,
     return_to_invest  |-> t.return_to_invest,
     pv_cash_flow      |-> t.pv_cash_flow,
     pv_net_sales      |-> t.pv_net_sales,
     total_pv          |-> t.total_pv,
     npv               |-> t.npv,
     pct_pv_income     |-> t.pct_pv_income,
     pct_pv_sales      |-> t.pct_pv_sales,
     irr               |-> rate,
     exit_noi          |-> noi,
     net_sale_price    |-> t.net_sale_price]

ReturnMetrics ==
    /\ pc = "irr_done"
    /\ entry # "calculate_irr"
    /\ result' = Metrics(annual_cash_flows, cash_flow_pvs, totals, irr, exit_noi)
    /\ pc' = "returned"
    /\ UNCHANGED <<inputVars, caller, projVars, irrVars, exception, sheetnames, cash_flow_sheet, calls, response, metrics_or_error>>

\* ------------------------------------------------------------------------
\* create_underwriting

SheetName(title, n) == [title |-> title, n |-> n]

\* Workbook() holds one sheet named 'Sheet'.
NewWorkbook == <<SheetName("Sheet", 0)>>

\* The default sheet left in the workbook.
KeepDefault(names) == names

\* del self.wb['Sheet'] when that sheet exists.
RemoveDefault(names) == SelectSeq(names, LAMBDA s : s # SheetName("Sheet", 0))

\* wb.create_sheet(title): a title already in use gets a number appended.
create_sheet(names, title) ==
    Append(names, SheetName(title, Cardinality({i \in 1..Len(names) : names[i].title = title})))

\* The exception create_cash_flow raises for these inputs, or "none".
create_cash_flow_error(lease, ass) ==
    LET start == Strptime(lease.lease_start, "%m/%d/%Y")
        end   == Strptime(lease.lease_end, "%m/%d/%Y")
        exp   == IntYears(end.day - cf_start_date) + 1
    IN IF ~StrptimeMonth(ass.valuation_date, "%B, %Y").ok THEN "ValueError"
       ELSE IF ~start.ok THEN "ValueError"
       ELSE IF IsZero(FAdd(FOne, lease.escalation_rate)) /\ IntYears(cf_start_date - start.day) < 0
       THEN "ZeroDivisionError"
       ELSE IF ~end.ok THEN "ValueError"
       ELSE IF exp + 1 \in 2..11 /\ market_rent_psf(ass).k = "None" THEN "TypeError"
       ELSE "none"

NoSheet == [k |-> "none"]

\* Lines 523-530: the rent create_cash_flow puts in the Year 1 column.
sheet_current_rent(lease) ==
    LET start == Strptime(lease.lease_start, "%m/%d/%Y")
    IN FMul(lease.current_annual_rent,
            FPowInt(FAdd(FOne, lease.escalation_rate), IntYears(cf_start_date - start.day)))

RECURSIVE potential_base_rent(_, _, _, _)
\* Lines 537-560: the value of the Potential Base Rent cell of year y; a
\* cell holding a formula has the value the formula yields.
potential_base_rent(y, exp, lease, ass) ==
    IF y = 1
    THEN sheet_current_rent(lease)
    ELSE IF y <= exp
    THEN FMul(potential_base_rent(y - 1, exp, lease, ass), FAdd(FOne, lease.escalation_rate))
    ELSE IF y = exp + 1
    THEN FMul(market_rent_psf(ass).v, lease.area_sf)
    ELSE FMul(potential_base_rent(y - 1, exp, lease, ass), FAdd(FOne, ass.market_escalation_rate))

\* Lines 568-582: the Absorption & Turnover Vacancy cell of year y.
absorption_vacancy(y, exp, rent, ass) ==
    IF y = exp
    THEN FNeg(FMul(rent, FMul(FDiv(ass.vacancy_months, FromInt(12)),
                              FSub(FOne, ass.renewal_probability))))
    ELSE FZero

\* Lines 660-670: the Tenant Improvements cell of year y.
tenant_improvements(y, exp, lease, ass) ==
    IF y = exp
    THEN FMul(FMul(ass.tenant_improvements_psf, lease.area_sf), FSub(FOne, ass.renewal_probability))
    ELSE FZero

\* Lines 676-689: the Leasing Commissions cell of year y.
leasing_commissions(y, exp, rent, ass) ==
    IF y = exp THEN FMul(rent, ass.leasing_commission_year1_pct) ELSE FZero

\* The rows create_cash_flow fills for the years 1..11.
CashFlowSheet(lease, ass) ==
    LET end  == Strptime(lease.lease_end, "%m/%d/%Y")
        exp  == IntYears(end.day - cf_start_date) + 1
        rent == [y \in 1..11 |-> potential_base_rent(y, exp, lease, ass)]
    IN [k                   |-> "sheet",
        base_year           |-> StrptimeMonth(ass.valuation_date, "%B, %Y").year,
        expiry_year         |-> exp,
        potential_base_rent |-> rent,
        absorption_vacancy  |-> [y \in 1..11 |-> absorption_vacancy(y, exp, rent[y], ass)],
        tenant_improvements |-> [y \in 1..11 |-> tenant_improvements(y, exp, lease, ass)],
        leasing_commissions |-> [y \in 1..11 |-> leasing_commissions(y, exp, rent[y], ass)]]

\* create_underwriting lines 36-44: drop the default sheet, build the Cash
\* Flow sheet, call calculate_return_metrics.
CreateCashFlow ==
    /\ pc = "create_underwriting"
    /\ calls' = calls + 1
    /\ sheetnames' = create_sheet(RemoveDefault(sheetnames), "Cash Flow")
    /\ LET err == create_cash_flow_error(lease_data, assumptions)
       IN IF err # "none"
          THEN /\ Raise(err)
               /\ cash_flow_sheet' = NoSheet
               /\ UNCHANGED <<caller, projVars, irrVars, result>>
          ELSE /\ cash_flow_sheet' = CashFlowSheet(lease_data, assumptions)
               /\ caller' = "create_underwriting"
               /\ pc' = "start_rent"
               /\ FreshLocalsNext
               /\ result' = NoResult
               /\ UNCHANGED exception
    /\ UNCHANGED <<inputVars, response, metrics_or_error>>

\* create_underwriting lines 46-51: the three other sheets.  The rent
\* schedule divides the rent by the area.
CreateSheets ==
    /\ pc = "returned"
    /\ caller = "create_underwriting"
    /\ IF IsZero(lease_data.area_sf)
       THEN /\ sheetnames' = create_sheet(create_sheet(sheetnames, "Valuation Summary"), "Rent Schedule")
            /\ Raise("ZeroDivisionError")
       ELSE /\ sheetnames' = create_sheet(create_sheet(create_sheet(sheetnames,
                                 "Valuation Summary"), "Rent Schedule"), "Market Leasing Summary")
            /\ pc' = "workbook"
            /\ UNCHANGED exception
    /\ caller' = IF entry = "underwrite" THEN "underwrite_body" ELSE "workbook_client"
    /\ UNCHANGED <<inputVars, projVars, irrVars, result, cash_flow_sheet, calls, response, metrics_or_error>>

\* A bound on the calls of create_underwriting made on one instance.
MaxCalls == 2

\* The client calls create_underwriting again, on the same instance and with
\* the same three dictionaries.
CallAgain ==
    /\ pc = "workbook"
    /\ entry = "create_underwriting"
    /\ calls < MaxCalls
    /\ pc' = "create_underwriting"
    /\ UNCHANGED <<inputVars, caller, projVars, irrVars, outVars>>

\* ------------------------------------------------------------------------
\* The /underwrite handler of api.py

NoData == [k |-> "none"]

NoResponse == [status |-> 0, body |-> "none"]

\* parse_date: the first of the four formats that fits.
parse_date(s) == s.fmt \in DateFormats /\ ValidDate(s)

\* x / 100 if x > 1 else x, for a request entry with a percent default.
PercentOrFraction(opt, default) ==
    LET x == IF opt.k = "absent" THEN default ELSE opt.v
    IN IF FLt(FOne, x) THEN FDiv(x, FromInt(100)) ELSE x

\* Lines 87-92.
BuildProperty(d) == [purchase_price |-> d.purchase_price]

\* Lines 94-109.
BuildLease(d) ==
    [area_sf                   |-> d.area_sf,
     current_annual_rent       |-> FMul(d.current_rent_psf, d.area_sf),
     escalation_rate           |-> FDiv(d.annual_escalation, FromInt(100)),
     lease_start               |-> d.lease_start,
     lease_end                 |-> d.lease_end,
     lease_term_years          |-> IntYears(DayNumber(d.lease_end.y, d.lease_end.m, d.lease_end.d)
                                            - DayNumber(d.lease_start.y, d.lease_start.m, d.lease_start.d)),
     year1_starting_rent       |-> IF d.year1_starting_rent.k = "absent" THEN None
                                   ELSE d.year1_starting_rent,
     use_fractional_escalation |-> d.use_fractional_escalation]

\* Lines 111-138.
BuildAssumptions(d) ==
    [valuation_date               |-> Month("%B, %Y", 2026, 1),
     vacancy_start_month          |-> IF d.vacancy_start_month.k = "absent" THEN None
                                      ELSE d.vacancy_start_month,
     market_rent_start_month      |-> IF d.market_rent_start_month.k = "absent" THEN None
                                      ELSE d.market_rent_start_month,
     discount_rate                |-> Dec(8, 100),
     exit_cap_rate                |-> PercentOrFraction(d.exit_cap_rate, Dec(65, 10)),
     selling_costs                |-> FZero,
     hold_period_years            |-> 10,
     renewal_probability          |-> FDiv(d.renewal_probability, FromInt(100)),
     market_rent_psf              |-> d.market_rent_psf,
     adjusted_market_rent_psf     |-> IF d.adjusted_market_rent_psf.k = "absent"
                                      THEN Num(d.market_rent_psf)
                                      ELSE d.adjusted_market_rent_psf,
     market_escalation_rate       |-> FDiv(d.market_escalation, FromInt(100)),
     vacancy_months               |-> d.vacancy_months,
     tenant_improvements_psf      |-> d.ti_psf,
     leasing_commission_year1_pct |-> PercentOrFraction(d.leasing_commission_year1_pct, FromInt(8))]

\* Lines 55-145: build the dictionaries and call calculate_return_metrics
\* on a new CREUnderwriter.
Underwrite ==
    /\ pc = "request"
    /\ path = "/underwrite"
    /\ IF ~(parse_date(data.lease_start) /\ parse_date(data.lease_end))
       THEN /\ Raise("ValueError")
            /\ UNCHANGED <<property_data, lease_data, assumptions, caller, projVars, irrVars, sheetnames, cash_flow_sheet, calls>>
       ELSE IF data.exit_cap_rate.k = "None" \/ data.leasing_commission_year1_pct.k = "None"
       THEN /\ Raise("TypeError")
            /\ UNCHANGED <<property_data, lease_data, assumptions, caller, projVars, irrVars, sheetnames, cash_flow_sheet, calls>>
       ELSE /\ property_data' = BuildProperty(data)
            /\ lease_data' = BuildLease(data)
            /\ assumptions' = BuildAssumptions(data)
            /\ sheetnames' = NewWorkbook
            /\ UNCHANGED <<cash_flow_sheet, calls>>
            /\ caller' = "underwrite"
            /\ pc' = "start_rent"
            /\ FreshLocalsNext
            /\ UNCHANGED exception
    /\ UNCHANGED <<entry, path, data, result, response, metrics_or_error>>

\* The routes api.py registers.
Routes == {"/health", "/underwrite", "/parse-documents", "/parse-excel"}

\* A request for a path that no route is registered for: the framework
\* answers 404 and no handler runs.
NotFound ==
    /\ pc = "request"
    /\ path \notin Routes
    /\ response' = [status |-> 404, body |-> "Not Found"]
    /\ pc' = "responded"
    /\ UNCHANGED <<inputVars, caller, projVars, irrVars, result, exception, sheetnames, cash_flow_sheet, calls, metrics_or_error>>

\* Lines 146-147: calculate_return_metrics raised.
UnderwriteValidationFailed ==
    /\ pc = "raised"
    /\ entry = "underwrite"
    /\ caller = "underwrite"
    /\ response' = [status |-> 500, body |-> "Failed during validation"]
    /\ pc' = "responded"
    /\ UNCHANGED <<inputVars, caller, projVars, irrVars, result, exception, sheetnames, cash_flow_sheet, calls, metrics_or_error>>

\* Lines 149-171: the needs_input answer, or else the call of
\* create_underwriting.
UnderwriteValidated ==
    /\ pc = "returned"
    /\ caller = "underwrite"
    /\ metrics_or_error' = result
    /\ IF "error" \in DOMAIN result /\ result["error"] = "needs_input"
       THEN /\ response' = [status |-> 422, body |-> "needs_input"]
            /\ pc' = "responded"
            /\ UNCHANGED caller
       ELSE /\ pc' = "create_underwriting"
            /\ caller' = "underwrite_body"
            /\ UNCHANGED response
    /\ UNCHANGED <<inputVars, projVars, irrVars, result, exception, sheetnames, cash_flow_sheet, calls>>

\* Lines 173-187: save the workbook and send it.
SendFile ==
    /\ pc = "workbook"
    /\ entry = "underwrite"
    /\ response' = [status |-> 200, body |-> "workbook"]
    /\ pc' = "responded"
    /\ UNCHANGED <<inputVars, caller, projVars, irrVars, result, exception, sheetnames, cash_flow_sheet, calls, metrics_or_error>>

\* Lines 189-190: any other exception of the handler.
UnderwriteFailed ==
    /\ pc = "raised"
    /\ entry = "underwrite"
    /\ caller # "underwrite"
    /\ response' = [status |-> 500, body |-> "error"]
    /\ pc' = "responded"
    /\ UNCHANGED <<inputVars, caller, projVars, irrVars, result, exception, sheetnames, cash_flow_sheet, calls, metrics_or_error>>

\* ------------------------------------------------------------------------
\* Inputs

\* The deal of main() in cre_underwriter.py.
BaseProperty == [purchase_price |-> FromInt(17800000)]

BaseLease ==
    [area_sf                   |-> FromInt(60071),
     current_annual_rent       |-> Dec(85360891, 100),
     escalation_rate           |-> Dec(3, 100),
     lease_start               |-> Date("%m/%d/%Y", 2022, 3, 1),
     lease_end                 |-> Date("%m/%d/%Y", 2032, 2, 29),
     lease_term_years          |-> 10,
     year1_starting_rent       |-> Absent,
     use_fractional_escalation |-> FALSE]

BaseAssumptions ==
    [valuation_date               |-> Month("%B, %Y", 2026, 1),
     vacancy_start_month          |-> Absent,
     market_rent_start_month      |-> Absent,
     discount_rate                |-> Dec(8, 100),
     exit_cap_rate                |-> Dec(65, 1000),
     selling_costs                |-> FZero,
     hold_period_years            |-> 10,
     renewal_probability          |-> Dec(85, 100),
     market_rent_psf              |-> Dec(175, 10),
     adjusted_market_rent_psf     |-> Absent,
     market_escalation_rate       |-> Dec(35, 1000),
     vacancy_months               |-> FromInt(8),
     tenant_improvements_psf      |-> FromInt(5),
     leasing_commission_year1_pct |-> Dec(8, 100)]

Deal(p, l, a) == [property |-> p, lease |-> l, assumptions |-> a]

\* The deals calculate_return_metrics is called with: the base deal and the
\* base deal with one group of entries changed.
LeaseCases ==
    {BaseLease,
     [BaseLease EXCEPT !.year1_starting_rent = Num(FromInt(900000))],
     [BaseLease EXCEPT !.year1_starting_rent = None],
     [BaseLease EXCEPT !.use_fractional_escalation = TRUE],
     [BaseLease EXCEPT !.lease_start = Date("%m/%d/%Y", 2032, 3, 1),
                       !.lease_end = Date("%m/%d/%Y", 2030, 2, 28)],
     [BaseLease EXCEPT !.lease_start = Date("%Y-%m-%d", 2022, 3, 1)],
     [BaseLease EXCEPT !.lease_end = Date("%m/%d/%Y", 2031, 2, 30)],
     [BaseLease EXCEPT !.lease_end = Date("other", 2032, 2, 29)],
     [BaseLease EXCEPT !.area_sf = FZero],
     [BaseLease EXCEPT !.area_sf = FromInt(-60071)],
     [BaseLease EXCEPT !.current_annual_rent = FZero]}

PropertyCases ==
    {[purchase_price |-> FZero],
     [purchase_price |-> FromInt(-17800000)],
     [purchase_price |-> FromInt(1)]}

AssumptionCases ==
    {[BaseAssumptions EXCEPT !.exit_cap_rate = FZero],
     [BaseAssumptions EXCEPT !.exit_cap_rate = Dec(-65, 1000)],
     [BaseAssumptions EXCEPT !.discount_rate = FromInt(-1)],
     [BaseAssumptions EXCEPT !.adjusted_market_rent_psf = None],
     [BaseAssumptions EXCEPT !.market_rent_psf = FZero, !.tenant_improvements_psf = FZero]}

\* A deal of very small amounts, all in proportion.
MicroDeal ==
    Deal([purchase_price |-> Dec(1, 1000)],
         [BaseLease EXCEPT !.area_sf = FromInt(1), !.current_annual_rent = Dec(1, 10000)],
         [BaseAssumptions EXCEPT !.market_rent_psf = Dec(1, 10000), !.tenant_improvements_psf = FZero])

\* Leases of the small deal that end or start on other sides of the
\* analysis start, 01/01/2026, and of the ten-year horizon.
MicroLeaseCases ==
    {[MicroDeal.lease EXCEPT !.lease_end = Date("%m/%d/%Y", 2025, 6, 30)],
     [MicroDeal.lease EXCEPT !.lease_end = Date("%m/%d/%Y", 2014, 6, 30)],
     [MicroDeal.lease EXCEPT !.lease_end = Date("%m/%d/%Y", 2026, 1, 1)],
     [MicroDeal.lease EXCEPT !.lease_end = Date("%m/%d/%Y", 2035, 6, 30)],
     [MicroDeal.lease EXCEPT !.lease_start = Date("%m/%d/%Y", 2026, 7, 1),
                             !.lease_end = Date("%m/%d/%Y", 2036, 6, 30)],
     [MicroDeal.lease EXCEPT !.lease_start = Date("%m/%d/%Y", 2027, 3, 1),
                             !.lease_end = Date("%m/%d/%Y", 2040, 2, 29)],
     [MicroDeal.lease EXCEPT !.lease_end = Date("%m/%d/%Y", 2036, 6, 30),
                             !.escalation_rate = FDiv(FOne, FromInt(2^20))]}

\* Assumptions of the small deal with the entries the engine does not read.
MicroAssumptionCases ==
    {[MicroDeal.assumptions EXCEPT !.hold_period_years = 5, !.selling_costs = Dec(2, 100)],
     [MicroDeal.assumptions EXCEPT !.valuation_date = Month("%B, %Y", 2030, 1)]}

Deals ==
    {Deal(BaseProperty, l, BaseAssumptions) : l \in LeaseCases}
    \cup {Deal(p, BaseLease, BaseAssumptions) : p \in PropertyCases}
    \cup {Deal(BaseProperty, BaseLease, a) : a \in AssumptionCases}
    \cup {Deal(BaseProperty, [BaseLease EXCEPT !.current_annual_rent = FZero],
               [BaseAssumptions EXCEPT !.market_rent_psf = FZero, !.tenant_improvements_psf = FZero]),
          MicroDeal}
    \cup {Deal(MicroDeal.property, l, MicroDeal.assumptions) : l \in MicroLeaseCases}
    \cup {Deal(MicroDeal.property, l, a) : l \in MicroLeaseCases \cup {MicroDeal.lease},
                                            a \in MicroAssumptionCases}

\* The deal of test_basic_underwriting.
TestDeal ==
    Deal([purchase_price |-> FromInt(10000000)],
         [BaseLease EXCEPT !.area_sf = FromInt(50000), !.current_annual_rent = FromInt(500000),
                           !.lease_start = Date("%m/%d/%Y", 2024, 1, 1),
                           !.lease_end = Date("%m/%d/%Y", 2033, 12, 31)],
         [BaseAssumptions EXCEPT !.market_rent_psf = FromInt(12), !.vacancy_months = FromInt(6)])

\* The deals create_underwriting is called with.
WorkbookDeals ==
    {TestDeal, MicroDeal,
     Deal(MicroDeal.property, [MicroDeal.lease EXCEPT !.year1_starting_rent = Num(Dec(2, 10000))],
          MicroDeal.assumptions),
     Deal(MicroDeal.property, [MicroDeal.lease EXCEPT !.use_fractional_escalation = TRUE],
          MicroDeal.assumptions),
     Deal(MicroDeal.property, MicroDeal.lease,
          [MicroDeal.assumptions EXCEPT !.valuation_date = Month("%m/%Y", 2026, 1)]),
     Deal(MicroDeal.property, MicroDeal.lease,
          [MicroDeal.assumptions EXCEPT !.adjusted_market_rent_psf = None])}
    \cup {Deal(MicroDeal.property, l, a) : l \in MicroLeaseCases, a \in MicroAssumptionCases}

\* The example request of the /underwrite docstring.
BaseRequest ==
    [area_sf                      |-> FromInt(60071),
     current_rent_psf             |-> Dec(1421, 100),
     lease_start                  |-> Date("%m/%d/%Y", 2022, 3, 1),
     lease_end                    |-> Date("%m/%d/%Y", 2032, 2, 29),
     annual_escalation            |-> FromInt(3),
     purchase_price               |-> FromInt(17800000),
     renewal_probability          |-> FromInt(85),
     market_rent_psf              |-> Dec(175, 10),
     market_escalation            |-> Dec(35, 10),
     vacancy_months               |-> FromInt(8),
     ti_psf                       |-> FromInt(5),
     year1_starting_rent          |-> Absent,
     use_fractional_escalation    |-> FALSE,
     exit_cap_rate                |-> Absent,
     leasing_commission_year1_pct |-> Absent,
     adjusted_market_rent_psf     |-> Absent,
     vacancy_start_month          |-> Absent,
     market_rent_start_month      |-> Absent]

\* A request for a deal of very small amounts that names the month-level
\* timing of the vacancy and of the market rent.
MicroRequest ==
    [BaseRequest EXCEPT !.area_sf = FromInt(1), !.current_rent_psf = Dec(1, 10000),
                        !.purchase_price = Dec(1, 1000), !.market_rent_psf = Dec(1, 10000),
                        !.ti_psf = FZero, !.year1_starting_rent = Num(Dec(1, 10000)),
                        !.vacancy_start_month = Num(FromInt(3)),
                        !.market_rent_start_month = Num(FromInt(4))]

Requests ==
    {BaseRequest, MicroRequest,
     [BaseRequest EXCEPT !.year1_starting_rent = Num(FromInt(900000))],
     [BaseRequest EXCEPT !.year1_starting_rent = Num(FromInt(900000)), !.area_sf = FZero],
     [BaseRequest EXCEPT !.year1_starting_rent = Num(FromInt(900000)),
                         !.lease_end = Date("%Y-%m-%d", 2032, 2, 29)],
     [BaseRequest EXCEPT !.lease_start = Date("other", 2022, 3, 1)],
     [BaseRequest EXCEPT !.exit_cap_rate = None]}

NoDict == [k |-> "none"]

\* ------------------------------------------------------------------------
\* Specifications

\* A client calls calculate_return_metrics on a new CREUnderwriter, or posts
\* a request to /underwrite.
Init ==
    /\ \/ /\ entry = "calculate_return_metrics"
          /\ path = "none"
          /\ data = NoData
          /\ \E deal \in Deals :
                /\ property_data = deal.property
                /\ lease_data = deal.lease
                /\ assumptions = deal.assumptions
          /\ pc = "start_rent"
          /\ caller = "client"
       \/ /\ entry = "create_underwriting"
          /\ path = "none"
          /\ data = NoData
          /\ \E deal \in WorkbookDeals :
                /\ property_data = deal.property
                /\ lease_data = deal.lease
                /\ assumptions = deal.assumptions
          /\ pc = "create_underwriting"
          /\ caller = "workbook_client"
       \/ /\ entry = "underwrite"
          /\ \/ path = "/underwrite" /\ data \in Requests
             \/ path = "/underwrite/simple" /\ data = BaseRequest
          /\ property_data = NoDict
          /\ lease_data = NoDict
          /\ assumptions = NoDict
          /\ pc = "request"
          /\ caller = "client"
    /\ FreshLocals
    /\ result = NoResult
    /\ exception = "none"
    /\ sheetnames = NewWorkbook
    /\ cash_flow_sheet = NoSheet
    /\ calls = 0
    /\ response = NoResponse
    /\ metrics_or_error = NoResult

Next ==
    \/ StartRent
    \/ ExpiryYear
    \/ YearStep
    \/ ExitNoi
    \/ CalcTotals
    \/ IrrIterate
    \/ IrrExhausted
    \/ ReturnMetrics
    \/ CreateCashFlow
    \/ CreateSheets
    \/ CallAgain
    \/ NotFound
    \/ Underwrite
    \/ UnderwriteValidationFailed
    \/ UnderwriteValidated
    \/ SendFile
    \/ UnderwriteFailed

Spec == Init /\ [][Next]_vars

Flows(v) == [i \in 1..10 |-> v]

IrrInvestments == {FZero, Dec(1, 1000), FromInt(1000), FromInt(-1000)}

IrrFlows == {FZero, FromInt(100)}

IrrTerminals == {FZero, Dec(1, 1000), FromInt(1000)}

\* A client calls calculate_irr itself.
InitIrr ==
    /\ entry = "calculate_irr"
    /\ path = "none"
    /\ data = NoData
    /\ property_data = NoDict
    /\ lease_data = NoDict
    /\ assumptions = NoDict
    /\ pc = "irr"
    /\ caller = "client"
    /\ current_rent = None
    /\ expiry_year = 0
    /\ year = 0
    /\ annual_cash_flows = << >>
    /\ cash_flow_pvs = << >>
    /\ year_locals = NoLocals
    /\ exit_noi = FZero
    /\ totals = NoResult
    /\ \E inv \in IrrInvestments, cf \in IrrFlows, tv \in IrrTerminals :
          /\ initial_investment = inv
          /\ cash_flows = Flows(cf)
          /\ terminal_value = tv
    /\ low = LowStart
    /\ high = HighStart
    /\ mid = FZero
    /\ iter = 0
    /\ irr_exit = "none"
    /\ irr = FZero
    /\ result = NoResult
    /\ exception = "none"
    /\ sheetnames = NewWorkbook
    /\ cash_flow_sheet = NoSheet
    /\ calls = 0
    /\ response = NoResponse
    /\ metrics_or_error = NoResult

NextIrr == IrrIterate \/ IrrExhausted

SpecIrr == InitIrr /\ [][NextIrr]_vars

\* ------------------------------------------------------------------------
\* Properties

\* C1: whenever f(-0.99) and f(5.00) do not have opposite signs,
\* calculate_irr reports 'IRR not found': neither of its return statements
\* hands a numeric rate to calculate_return_metrics.
C1_IrrNotFound ==
    LET f_low    == npv_at_rate(initial_investment, cash_flows, terminal_value, LowStart)
        f_high   == npv_at_rate(initial_investment, cash_flows, terminal_value, HighStart)
        opposite == (f_low.m < 0 /\ f_high.m > 0) \/ (f_low.m > 0 /\ f_high.m < 0)
    IN (pc \in {"irr_done", "returned"} /\ irr_exit # "none" /\ ~opposite)
           => irr_exit \notin {"tolerance", "exhausted"}

\* C2: when the loop has run all 1000 iterations without meeting the
\* tolerance, the value calculate_irr returns carries a mark saying it is
\* approximate.
C2_ExhaustedFlagged ==
    (pc = "irr_done" /\ irr_exit = "exhausted") => "approximate" \in DOMAIN irr

\* C3: calculate_irr terminates after at most 1000 iterations: every step
\* of the running function is either a pass through the loop that raises
\* the count of passes by one, to 1000 at most, or the return.
C3_TerminatesWithinCap ==
    [][pc = "irr" => (iter' <= 1000 /\ (iter' = iter + 1 \/ pc' = "irr_done"))]_vars

\* The loop ran to the cap and the function returned.
C3_Witness == pc = "irr_done" /\ irr_exit = "exhausted" /\ iter = 1000

\* C4: whenever calculate_return_metrics returns, the NPV of the ten cash
\* flows and net_sale_price at the rate irr / 100, less purchase_price, is
\* within 0.01% of purchase_price.
C4_NpvAtIrr ==
    pc = "returned" =>
        LET rate == FDiv(result.irr, FromInt(100))
            v    == npv_at_rate(property_data.purchase_price, result.annual_cash_flows,
                                result.net_sale_price, rate)
        IN FLe(FAbs(v), FMul(Dec(1, 10000), FAbs(property_data.purchase_price)))

\* C5: once the start rent is chosen it is the supplied year1_starting_rent
\* when a value was supplied, and otherwise (entry absent or None) the rent
\* derived from current_annual_rent, a number.
C5_StartRentSource ==
    (pc \in {"expiry", "loop", "exit_noi", "totals", "irr", "irr_done", "returned"}
         /\ entry # "calculate_irr") =>
        IF lease_data.year1_starting_rent.k = "num"
        THEN current_rent = lease_data.year1_starting_rent
        ELSE current_rent.k = "num"

\* C6: no year is projected and no metrics are returned for a lease whose
\* dates are malformed or whose lease_end is on or before lease_start.
C6_LeaseDatesOrdered ==
    (pc \in {"loop", "exit_noi", "totals", "irr", "irr_done", "returned"}
         /\ entry # "calculate_irr") =>
        LET s == lease_data.lease_start
            e == lease_data.lease_end
        IN /\ s.fmt \in DateFormats /\ ValidDate(s)
           /\ e.fmt \in DateFormats /\ ValidDate(e)
           /\ DayNumber(e.y, e.m, e.d) > DayNumber(s.y, s.m, s.d)

\* C7: no cash flow is computed, no division made and no metrics returned
\* unless area_sf, purchase_price and exit_cap_rate are all positive.
C7_PositiveInputs ==
    (pc \in {"loop", "exit_noi", "totals", "irr", "irr_done", "returned"}
         /\ entry # "calculate_irr") =>
        /\ lease_data.area_sf.m > 0
        /\ property_data.purchase_price.m > 0
        /\ assumptions.exit_cap_rate.m > 0

\* C8: once calculate_return_metrics has gone past its totals with a
\* purchase_price of zero or a total_pv of zero, a ZeroDivisionError has
\* been raised and no metrics dictionary exists; every dictionary returned
\* holds the true quotients of non-zero divisors.
C8_DivisionByZeroRaised ==
    /\ (entry # "calculate_irr" /\ year = 11 /\ pc \notin {"exit_noi", "totals"}) =>
           LET price    == property_data.purchase_price
               cap      == assumptions.exit_cap_rate
               growth   == FPowNat(FAdd(FOne, assumptions.discount_rate), 10)
               total_pv == FAdd(FSum(cash_flow_pvs, 1, FZero), FDiv(FDiv(exit_noi, cap), growth))
           IN (IsZero(price) \/ (~IsZero(cap) /\ ~IsZero(growth) /\ IsZero(total_pv))) =>
                  /\ exception = "ZeroDivisionError"
                  /\ result = NoResult
                  /\ response.status # 200
    /\ result.k = "metrics" =>
           /\ ~IsZero(property_data.purchase_price)
           /\ ~IsZero(result.total_pv)
           /\ result.return_to_invest = FDiv(result.total_return, property_data.purchase_price)

\* The totals were reached with a purchase price of zero and the division
\* raised.
C8_Witness ==
    /\ entry = "calculate_return_metrics"
    /\ pc = "raised"
    /\ year = 11
    /\ IsZero(property_data.purchase_price)
    /\ exception = "ZeroDivisionError"

\* C9: whenever metrics are returned, pct_pv_income and pct_pv_sales are
\* the fractions pv_cash_flow / total_pv and pv_net_sales / total_pv, and
\* they sum to 1.0 within the rounding of the arithmetic.
C9_FractionsSumToOne ==
    pc = "returned" =>
        LET eps == FDiv(FromInt(8), FromInt(2^MantBits))
            inc == result.pct_pv_income
            sal == result.pct_pv_sales
        IN /\ inc = FDiv(result.pv_cash_flow, result.total_pv)
           /\ sal = FDiv(result.pv_net_sales, result.total_pv)
           /\ FLe(FAbs(FSub(FAdd(inc, sal), FOne)), FMul(eps, FAdd(FAbs(inc), FAbs(sal))))

\* C9 as the code has it: whenever metrics are returned, pct_pv_income and
\* pct_pv_sales are the percentages pv_cash_flow / total_pv * 100 and
\* pv_net_sales / total_pv * 100, and they sum to 100 within the rounding
\* of the arithmetic.
C9_PercentagesSumToHundred ==
    pc = "returned" =>
        LET eps == FDiv(FromInt(8), FromInt(2^MantBits))
            inc == result.pct_pv_income
            sal == result.pct_pv_sales
        IN /\ inc = FMul(FDiv(result.pv_cash_flow, result.total_pv), FromInt(100))
           /\ sal = FMul(FDiv(result.pv_net_sales, result.total_pv), FromInt(100))
           /\ FLe(FAbs(FSub(FAdd(inc, sal), FromInt(100))), FMul(eps, FAdd(FAbs(inc), FAbs(sal))))

\* Metrics were returned in which income and sale both have a share.
C9_Witness ==
    /\ pc = "returned"
    /\ ~IsZero(result.pv_cash_flow)
    /\ ~IsZero(result.pv_net_sales)

\* C10: a call of calculate_return_metrics that raised has returned nothing,
\* a call that returned has returned all ten years and every total, and
\* /underwrite answers 200 only when no exception was raised and the whole
\* workbook was built.
C10_Atomic ==
    /\ (pc = "raised" /\ caller \in {"client", "underwrite", "create_underwriting"}) =>
           result = NoResult
    /\ pc = "returned" =>
           /\ result.k = "metrics"
           /\ exception = "none"
    /\ result.k = "metrics" =>
           /\ Len(result.annual_cash_flows) = 10
           /\ Len(result.cash_flow_pvs) = 10
           /\ irr_exit \in {"tolerance", "exhausted"}
    /\ response.status = 200 =>
           /\ exception = "none"
           /\ result.k = "metrics"
           /\ Len(sheetnames) = 4
    /\ (pc = "responded" /\ exception # "none") => response.status = 500

\* A year of the projection failed after earlier years had been computed.
C10_Witness ==
    /\ pc = "raised"
    /\ Len(annual_cash_flows) \in 1..9
    /\ result = NoResult

C12_ExpiryYearFloor ==
    (pc \in {"loop", "exit_noi", "totals", "irr", "irr_done", "returned"}
         /\ entry # "calculate_irr") =>
        LET e    == lease_data.lease_end
            days == DayNumber(e.y, e.m, e.d) - cf_start_date
        IN expiry_year = ((4 * days) \div 1461) + 1

\* C13: in floor-escalation mode the start rent is current_annual_rent
\* times (1 + escalation_rate) to the floor of the years elapsed since
\* lease_start, rounded toward minus infinity, for every lease_start.
C13_StartRentFloor ==
    (pc \in {"expiry", "loop", "exit_noi", "totals", "irr", "irr_done", "returned"}
         /\ entry # "calculate_irr"
         /\ lease_data.year1_starting_rent.k = "absent"
         /\ ~lease_data.use_fractional_escalation) =>
        LET s     == lease_data.lease_start
            days  == cf_start_date - DayNumber(s.y, s.m, s.d)
            whole == (4 * days) \div 1461
        IN current_rent = Num(FMul(lease_data.current_annual_rent,
                                   FPowInt(FAdd(FOne, lease_data.escalation_rate), whole)))

\* C14: the rent of every year 1..11 is the one the three-way partition on
\* expiry_year gives: the original-lease rent when y <= expiry_year, the
\* market rent when y = expiry_year + 1, the escalated market rent when
\* y > expiry_year + 1; exactly one case applies, and the rent of year 11 is
\* the exit NOI.
C14_RegimePartition ==
    (entry # "calculate_irr" /\ year_locals.year \in 1..11) =>
        LET y        == year_locals.year
            original == FMul(current_rent.v,
                             FPowNat(FAdd(FOne, lease_data.escalation_rate), y - 1))
            first    == FMul(market_rent_psf(assumptions).v, lease_data.area_sf)
            later    == FMul(first, FPowNat(FAdd(FOne, assumptions.market_escalation_rate),
                                            y - expiry_year - 1))
            cases    == {<<y <= expiry_year, 1>>, <<y = expiry_year + 1, 2>>,
                         <<y > expiry_year + 1, 3>>}
        IN /\ Cardinality({c \in cases : c[1]}) = 1
           /\ y <= expiry_year => year_locals.annual_rent = original
           /\ y = expiry_year + 1 => year_locals.annual_rent = first
           /\ y > expiry_year + 1 => year_locals.annual_rent = later
           /\ y = 11 => exit_noi = year_locals.annual_rent

\* The exit year is the first market year.
C14_Witness ==
    /\ entry # "calculate_irr"
    /\ year_locals.year = 11
    /\ expiry_year = 10
    /\ pc = "returned"

\* C15: in each projected year the vacancy loss is rent(y) * (vacancy_months
\* / 12) * (1 - renewal_probability), within the rounding of the arithmetic,
\* when y is expiry_year, and exactly 0 in every other year; the NOI is the
\* rent less that loss.
C15_VacancyConfined ==
    (entry # "calculate_irr" /\ year_locals.year \in 1..10) =>
        LET eps  == FDiv(FromInt(8), FromInt(2^MantBits))
            rent == year_locals.annual_rent
            loss == FMul(FMul(rent, FDiv(assumptions.vacancy_months, FromInt(12))),
                         FSub(FOne, assumptions.renewal_probability))
        IN /\ IF year_locals.year = expiry_year
              THEN FLe(FAbs(FSub(year_locals.vacancy_loss, loss)), FMul(eps, FAbs(loss)))
              ELSE year_locals.vacancy_loss = FZero
           /\ year_locals.noi = FSub(rent, year_locals.vacancy_loss)

\* The loop has passed the expiry year and charged a vacancy loss in it.
C15_Witness ==
    /\ entry # "calculate_irr"
    /\ year_locals.year = expiry_year
    /\ year_locals.year \in 1..10
    /\ year_locals.vacancy_loss.m > 0

C17_ExitNoi ==
    (entry # "calculate_irr" /\ pc \in {"irr", "irr_done", "returned"}) =>
        LET original == FMul(current_rent.v,
                             FPowNat(FAdd(FOne, lease_data.escalation_rate), 10))
            first    == FMul(market_rent_psf(assumptions).v, lease_data.area_sf)
            later    == FMul(first, FPowNat(FAdd(FOne, assumptions.market_escalation_rate),
                                            10 - expiry_year))
        IN /\ exit_noi = IF expiry_year >= 11 THEN original
                         ELSE IF expiry_year = 10 THEN first ELSE later
           /\ totals.net_sale_price = FDiv(exit_noi, assumptions.exit_cap_rate)
           /\ pc = "returned" =>
                  /\ result.exit_noi = exit_noi
                  /\ result.net_sale_price = totals.net_sale_price

\* Metrics were returned for a lease that expires in the exit year, with a
\* selling_costs assumption that is not zero.
C17_Witness ==
    /\ entry # "calculate_irr"
    /\ pc = "returned"
    /\ expiry_year = 11
    /\ ~IsZero(assumptions.selling_costs)
    /\ ~IsZero(assumptions.vacancy_months)

C19_ReferenceScenario ==
    (entry = "calculate_return_metrics" /\ pc = "returned" /\ property_data = BaseProperty
         /\ lease_data = BaseLease /\ assumptions = BaseAssumptions) =>
        LET Near(a, b) == FLe(FAbs(FSub(a, b)),
                              FMul(FDiv(FromInt(16), FromInt(2^MantBits)), FAbs(b)))
            cfs    == result.annual_cash_flows
            start  == FMul(Dec(85360891, 100), FPowNat(Dec(103, 100), 3))
            lease(y) == FMul(start, FPowNat(Dec(103, 100), y - 1))
            market == FMul(Dec(175, 10), FromInt(60071))
            loss   == FMul(FMul(lease(7), FDiv(FromInt(8), FromInt(12))), Dec(15, 100))
            ti     == FMul(FMul(FromInt(5), FromInt(60071)), Dec(15, 100))
            lc     == FMul(lease(7), Dec(8, 100))
        IN /\ expiry_year = 7
           /\ Near(current_rent.v, start)
           /\ \A y \in 1..6 : Near(cfs[y], lease(y))
           /\ Near(cfs[7], FSub(FSub(FSub(lease(7), loss), ti), lc))
           /\ FLt(cfs[7], cfs[6])
           /\ \A y \in 8..10 : Near(cfs[y], FMul(market, FPowNat(Dec(1035, 1000), y - 8)))
           /\ Near(result.exit_noi, FMul(market, FPowNat(Dec(1035, 1000), 3)))

\* Metrics were returned for the deal of main().
C19_Witness ==
    /\ entry = "calculate_return_metrics"
    /\ pc = "returned"
    /\ property_data = BaseProperty
    /\ lease_data = BaseLease
    /\ assumptions = BaseAssumptions
    /\ Len(result.annual_cash_flows) = 10

\* C20: whenever metrics are returned, annual_cash_flows and cash_flow_pvs
\* hold ten entries each, entry y of cash_flow_pvs is entry y of
\* annual_cash_flows over (1 + discount_rate)^y, and pv_net_sales is
\* net_sale_price over (1 + discount_rate)^10, whatever hold_period_years
\* holds.
C20_FixedHorizon ==
    (entry # "calculate_irr" /\ pc = "returned") =>
        LET base == FAdd(FOne, assumptions.discount_rate)
        IN /\ Len(result.annual_cash_flows) = 10
           /\ Len(result.cash_flow_pvs) = 10
           /\ \A y \in 1..10 :
                  result.cash_flow_pvs[y] = FDiv(result.annual_cash_flows[y], FPowNat(base, y))
           /\ result.pv_net_sales = FDiv(result.net_sale_price, FPowNat(base, 10))

\* Metrics were returned under a hold period of five years.
C20_Witness ==
    /\ entry # "calculate_irr"
    /\ pc = "returned"
    /\ assumptions.hold_period_years = 5
    /\ Len(result.cash_flow_pvs) = 10

\* C21: whenever metrics are returned, pv_cash_flow is the sum of
\* cash_flow_pvs, total_pv is pv_cash_flow + pv_net_sales, npv is total_pv -
\* purchase_price, total_return is the sum of annual_cash_flows plus
\* net_sale_price less purchase_price, and return_to_invest is the multiple
\* total_return / purchase_price, not a percentage.
C21_SummaryIdentities ==
    (entry # "calculate_irr" /\ pc = "returned") =>
        LET price == property_data.purchase_price
            pvs   == result.cash_flow_pvs
            cfs   == result.annual_cash_flows
            SumOf(q) == FAdd(FAdd(FAdd(FAdd(FAdd(FAdd(FAdd(FAdd(FAdd(q[1], q[2]), q[3]), q[4]),
                                  q[5]), q[6]), q[7]), q[8]), q[9]), q[10])
        IN /\ result.pv_cash_flow = SumOf(pvs)
           /\ result.total_pv = FAdd(result.pv_cash_flow, result.pv_net_sales)
           /\ result.npv = FSub(result.total_pv, price)
           /\ result.total_return = FSub(FAdd(SumOf(cfs), result.net_sale_price), price)
           /\ result.return_to_invest = FDiv(result.total_return, price)
           /\ ~IsZero(result.total_return) =>
                  result.return_to_invest # FMul(FDiv(result.total_return, price), FromInt(100))

\* Metrics were returned with a sale, an income and a total return that are
\* not zero.
C21_Witness ==
    /\ entry # "calculate_irr"
    /\ pc = "returned"
    /\ ~IsZero(result.pv_cash_flow)
    /\ ~IsZero(result.pv_net_sales)
    /\ ~IsZero(result.total_return)
    /\ ~IsZero(result.npv)

\* C22: the analysis start from which years_elapsed and years_to_expiry
\* are counted is January 1 of the year following the valuation date of the
\* assumptions, so that the start rent and expiry_year move with it.
C22_StartFollowsValuation ==
    (pc \in {"loop", "exit_noi", "totals", "irr", "irr_done", "returned"}
         /\ entry # "calculate_irr") =>
        LET s        == lease_data.lease_start
            e        == lease_data.lease_end
            analysis == DayNumber(assumptions.valuation_date.y + 1, 1, 1)
        IN /\ expiry_year = IntYears(DayNumber(e.y, e.m, e.d) - analysis) + 1
           /\ (lease_data.year1_starting_rent.k = "absent"
                   /\ ~lease_data.use_fractional_escalation) =>
                  current_rent = Num(FMul(lease_data.current_annual_rent,
                                          FPowInt(FAdd(FOne, lease_data.escalation_rate),
                                                  IntYears(analysis - DayNumber(s.y, s.m, s.d)))))

\* C23: the Cash Flow sheet recomputes nothing: once the engine has
\* returned its metrics to create_underwriting, the sheet's potential base
\* rent, vacancy and leasing costs of each year 1..11 are, within the
\* rounding of the arithmetic, the values calculate_return_metrics used for
\* the same inputs (in year 11, the exit rent with no vacancy and no cost).
C23_SheetMatchesEngine ==
    (pc = "returned" /\ caller = "create_underwriting") =>
        LET Near(a, b) == FLe(FAbs(FSub(a, b)),
                              FMul(FDiv(FromInt(16), FromInt(2^MantBits)), FAbs(b)))
            rent(y)  == IF y = 11
                        THEN exit_rent(current_rent, expiry_year, lease_data, assumptions).v
                        ELSE annual_rent(y, current_rent, expiry_year, lease_data, assumptions).v
            loss(y)  == IF y = 11 THEN FZero
                        ELSE vacancy_loss(y, rent(y), expiry_year, assumptions)
            costs(y) == IF y = 11 THEN FZero
                        ELSE total_leasing_costs(y, rent(y), expiry_year, lease_data, assumptions)
        IN \A y \in 1..11 :
               /\ Near(cash_flow_sheet.potential_base_rent[y], rent(y))
               /\ Near(FNeg(cash_flow_sheet.absorption_vacancy[y]), loss(y))
               /\ Near(FAdd(cash_flow_sheet.tenant_improvements[y],
                            cash_flow_sheet.leasing_commissions[y]), costs(y))

\* C24: the workbook create_underwriting returns from its first call on a
\* new CREUnderwriter holds the sheets 'Valuation Summary', 'Cash Flow',
\* 'Rent Schedule' and 'Market Leasing Summary' and no longer the default
\* 'Sheet'.
C24_ReportSheets ==
    (pc = "workbook" /\ calls = 1) =>
        LET names == {sheetnames[i] : i \in 1..Len(sheetnames)}
        IN /\ {SheetName(t, 0) : t \in {"Valuation Summary", "Cash Flow", "Rent Schedule",
                                         "Market Leasing Summary"}} \subseteq names
           /\ SheetName("Sheet", 0) \notin names

\* create_underwriting has returned the workbook of the deal of
\* test_basic_underwriting.
C24_Witness ==
    /\ entry = "create_underwriting"
    /\ pc = "workbook"
    /\ calls = 1
    /\ lease_data = TestDeal.lease
    /\ result.k = "metrics"

\* C25: a POST of the complete flat deal payload, with none of the optional
\* overrides, to /underwrite/simple is answered with status 200 and the
\* spreadsheet.
C25_SimpleEndpoint ==
    (pc = "responded" /\ path = "/underwrite/simple" /\ data = BaseRequest) =>
        response = [status |-> 200, body |-> "workbook"]

\* C26: a request to /underwrite whose lease_start and lease_end pass
\* parse_date, in any of the formats MM/DD/YYYY, YYYY-MM-DD, MM-DD-YYYY and
\* YYYY/MM/DD, is never failed by the date parsing of the engine.
C26_DateFormatsAccepted ==
    (entry = "underwrite" /\ path = "/underwrite"
         /\ parse_date(data.lease_start) /\ parse_date(data.lease_end)) =>
        exception # "ValueError"

\* C27: a second call of create_underwriting on the same instance with the
\* same inputs returns a workbook with the same sheets as the first:
\* exactly the four report sheets, none of them twice or under another name.
C27_SecondCallUnaffected ==
    (entry = "create_underwriting" /\ pc = "workbook") =>
        /\ Len(sheetnames) = 4
        /\ {sheetnames[i] : i \in 1..Len(sheetnames)} =
               {SheetName(t, 0) : t \in {"Valuation Summary", "Cash Flow", "Rent Schedule",
                                         "Market Leasing Summary"}}

\* C28: in calculate_irr, at every iteration -0.99 <= low <= mid <= high <=
\* 5.0; each pass that updates the bracket halves high - low, to within the
\* rounding of its ends; and when f(-0.99) * f(5.0) < 0, f(low) and f(high)
\* never have the same strict sign after an update, so that a root stays
\* inside [low, high].
C28_BracketInvariant ==
    [][LET f(rate)  == npv_at_rate(initial_investment, cash_flows, terminal_value, rate)
           ulp      == FDiv(FromInt(8), FromInt(2^MantBits))
           Halved(w, v) == FLe(FAbs(FSub(v, FDiv(w, FromInt(2)))), ulp)
           opposite == FLt(FMul(f(LowStart), f(HighStart)), FZero)
           Bracket(lo, md, hi, n) ==
               /\ FLe(LowStart, lo) /\ FLe(lo, hi) /\ FLe(hi, HighStart)
               /\ n >= 1 => (FLe(lo, md) /\ FLe(md, hi))
               /\ opposite => /\ ~(f(lo).m > 0 /\ f(hi).m > 0)
                               /\ ~(f(lo).m < 0 /\ f(hi).m < 0)
       IN pc = "irr" =>
              /\ Bracket(low, mid, high, iter)
              /\ Bracket(low', mid', high', iter')
              /\ pc' = "irr" =>
                     /\ Halved(FSub(high, low), FSub(high', low'))
                     /\ FLe(FSub(high', low'), FSub(high, low))]_vars

\* The bracket of a deal whose NPV changes sign has been narrowed to less
\* than a thousandth of its first width.
C28_Witness ==
    /\ pc = "irr"
    /\ iter >= 10
    /\ FLt(FMul(npv_at_rate(initial_investment, cash_flows, terminal_value, LowStart),
                npv_at_rate(initial_investment, cash_flows, terminal_value, HighStart)), FZero)
    /\ FLt(LowStart, low)
    /\ FLt(high, HighStart)
    /\ FLt(FSub(high, low), Dec(6, 1000))

\* C29: whichever return statement of calculate_irr ran, at the tolerance
\* or after the 1000 iterations, the value returned is the decimal rate mid
\* times 100 and lies in the closed interval [-99, 500].
C29_PercentInRange ==
    (pc = "irr_done" /\ irr_exit \in {"tolerance", "exhausted"}) =>
        /\ irr = FMul(mid, FromInt(100))
        /\ FLe(FromInt(-99), irr)
        /\ FLe(irr, FromInt(500))

\* The loop ran out of iterations at the upper end of the bracket and the
\* rate was returned as 500.
C29_Witness ==
    /\ pc = "irr_done"
    /\ irr_exit = "exhausted"
    /\ mid = HighStart
    /\ irr = FromInt(500)

====
